---- MODULE Spec2Model ----
(***************************************************************************)
(* logk: leveled, namespaced logging facade.                               *)
(*                                                                         *)
(* The model covers the standard logger (stdlogger.go: the twelve level    *)
(* methods, print, NewChild, NewStdLogger) and the global registry         *)
(* (Get, Register, Clear, NewChild over the package variables log and      *)
(* logMutex).  Loggers live in a heap (a sequence of StdLogger records,    *)
(* a logger's identity is its index); printers are identified by number.   *)
(***************************************************************************)
EXTENDS Integers, Sequences, FiniteSets, TLC

VARIABLES
    heap,       \* the StdLogger objects allocated so far, by address
    parent,     \* parent[i]: the logger NewChild derived heap[i] from, 0 for none
    nprinters,  \* number of stdLogPrinter objects allocated so far
    call,       \* the last Logger-method call made by the application
    aborted,    \* TRUE once the process has been terminated
    env,        \* the environment: LOG_LEVEL and LOG_NAMESPACE
    log,        \* the package variable log: a logger address, or Nil
    logMutex,   \* the package variable logMutex: the thread holding it, or 0
    pc,         \* pc[t]: where thread t stands inside Get / Register / Clear
    op,         \* op[t]: the registry function thread t called last
    arg,        \* arg[t]: the argument l of the Register call thread t is in
    res,        \* res[t]: what the last Get() of thread t returned to it
    outcome,    \* outcome[t]: how the last call of thread t ended
    vis,        \* vis[t]: the values an unsynchronized read of log by t may yield
    synth,      \* addresses of the default loggers Get has synthesized
    bootTraces, \* number of bootstrap Trace records that reached a Printer
    userOps,    \* TRUE once a caller has called Register or Clear
    committed,  \* what the last completed Register/Clear of a caller left
    clearMark,  \* heap size when the last Clear of a caller returned
    expect,     \* expect[t]: committed, as of the start of t's Get
    ncalls      \* number of calls of Get, Register, Clear and NewChild so far

\* ------------------------------------------------------------------------
\* Bounds of the model
\* ------------------------------------------------------------------------
MaxLoggers == 3
MaxCalls == 3

\* ------------------------------------------------------------------------
\* level.LogLevel
\* ------------------------------------------------------------------------
LevelFatal == 0
LevelError == 1
LevelWarn  == 2
LevelInfo  == 3
LevelDebug == 4
LevelTrace == 5
Levels == LevelFatal..LevelTrace

\* ------------------------------------------------------------------------
\* option.Options, the setters and Evaluate
\* ------------------------------------------------------------------------
NoCtx == "nil"
NamespaceKey == "namespace"
Keys == {NamespaceKey}

\* a value held in Options.Values: a dynamic type and a payload
Absent == [type |-> "none", v |-> ""]
StringValue(s) == [type |-> "string", v |-> s]

\* the zero-valued Options struct
ZeroOptions ==
    [Level |-> LevelFatal, Context |-> NoCtx, FmtArgs |-> <<>>,
     Values |-> [k \in Keys |-> Absent]]

\* the setter constructors
Level(l) == [kind |-> "Level", arg |-> l, str |-> ""]
WithNamespace(s) == [kind |-> "WithNamespace", arg |-> 0, str |-> s]
WithContext(c) == [kind |-> "WithContext", arg |-> 0, str |-> c]

\* applying one SetterFunc to an Options
ApplySetter(o, s) ==
    CASE s.kind = "Level" -> [o EXCEPT !.Level = s.arg]
      [] s.kind = "WithNamespace" ->
            [o EXCEPT !.Values[NamespaceKey] = StringValue(s.str)]
      [] s.kind = "WithContext" -> [o EXCEPT !.Context = s.str]

RECURSIVE EvaluateFrom(_, _)
EvaluateFrom(o, args) ==
    IF args = <<>> THEN o
    ELSE EvaluateFrom(ApplySetter(o, Head(args)), Tail(args))

\* Evaluate folds the setters, in order, over a zero Options
Evaluate(args) == EvaluateFrom(ZeroOptions, args)

\* NewFormatOptions carries the printf arguments and nothing else
NewFormatOptions(fmtArgs) == [ZeroOptions EXCEPT !.FmtArgs = fmtArgs]

\* GetString: exact-type retrieval, <<"", FALSE>> when absent or not a string
GetString(o, k) ==
    IF o.Values[k].type = "string" THEN <<o.Values[k].v, TRUE>> ELSE <<"", FALSE>>

\* ------------------------------------------------------------------------
\* StdLogger
\* ------------------------------------------------------------------------
NoPrinter == 0

\* the zero-valued StdLogger struct
ZeroStdLogger ==
    [level |-> LevelFatal, printer |-> NoPrinter, namespace |-> "", ctx |-> NoCtx]

\* NewStdLogPrinter allocates a fresh stdLogPrinter
NewStdLogPrinter == nprinters + 1

\* NewStdLogger(printer, args...) : the constructed StdLogger
NewStdLogger(printer, args) ==
    LET o == Evaluate(args)
        l1 == [ZeroStdLogger EXCEPT !.level = o.Level]
        namespace == GetString(o, NamespaceKey)[1]
        l2 == IF namespace # "" THEN [l1 EXCEPT !.namespace = namespace] ELSE l1
        l3 == IF o.Context # NoCtx THEN [l2 EXCEPT !.ctx = o.Context] ELSE l2
    IN  IF printer = NoPrinter
        THEN [l3 EXCEPT !.printer = NewStdLogPrinter]
        ELSE [l3 EXCEPT !.printer = printer]

\* the number of printers after a constructor call that yielded logger l
PrintersAfter(l) == IF l.printer > nprinters THEN l.printer ELSE nprinters

\* print with the comparison of the level gate turned around
print_strictGate(h, i, outLevel, options) ==
    IF outLevel >= h[i].level
    THEN [heap |-> h, out |-> <<>>, exit |-> FALSE]
    ELSE LET injected ==
                 IF h[i].ctx # NoCtx /\ options.Context = NoCtx
                 THEN [options EXCEPT !.Context = h[i].ctx]
                 ELSE options
         IN  [heap |-> h,
              out |-> <<[printer |-> h[i].printer, namespace |-> h[i].namespace,
                         level |-> outLevel, options |-> injected]>>,
              exit |-> FALSE]

\* print injecting the logger's context over the caller's
print_ctxOverride(h, i, outLevel, options) ==
    IF outLevel > h[i].level
    THEN [heap |-> h, out |-> <<>>, exit |-> FALSE]
    ELSE LET injected ==
                 IF h[i].ctx # NoCtx
                 THEN [options EXCEPT !.Context = h[i].ctx]
                 ELSE options
         IN  [heap |-> h,
              out |-> <<[printer |-> h[i].printer, namespace |-> h[i].namespace,
                         level |-> outLevel, options |-> injected]>>,
              exit |-> FALSE]

\* print ending the process after a record of level Fatal, as log.Fatal of the
\* standard library does
print_exitOnFatal(h, i, outLevel, options) ==
    IF outLevel > h[i].level
    THEN [heap |-> h, out |-> <<>>, exit |-> FALSE]
    ELSE LET injected ==
                 IF h[i].ctx # NoCtx /\ options.Context = NoCtx
                 THEN [options EXCEPT !.Context = h[i].ctx]
                 ELSE options
         IN  [heap |-> h,
              out |-> <<[printer |-> h[i].printer, namespace |-> h[i].namespace,
                         level |-> outLevel, options |-> injected]>>,
              exit |-> outLevel = LevelFatal]

\* print on the logger at address i of heap h.  The result is the heap after
\* the call, the sequence of Printer.Print invocations the call made, and
\* whether the call terminated the process instead of returning.
print(h, i, outLevel, options) ==
    IF outLevel > h[i].level
    THEN [heap |-> h, out |-> <<>>, exit |-> FALSE]
    ELSE LET injected ==
                 IF h[i].ctx # NoCtx /\ options.Context = NoCtx
                 THEN [options EXCEPT !.Context = h[i].ctx]
                 ELSE options
         IN  [heap |-> h,
              out |-> <<[printer |-> h[i].printer, namespace |-> h[i].namespace,
                         level |-> outLevel, options |-> injected]>>,
              exit |-> FALSE]

\* the twelve level methods
Fatal(h, i, args) == print(h, i, LevelFatal, Evaluate(args))
Fatalf(h, i, fmtArgs) == print(h, i, LevelFatal, NewFormatOptions(fmtArgs))
Error(h, i, args) == print(h, i, LevelError, Evaluate(args))
Errorf(h, i, fmtArgs) == print(h, i, LevelError, NewFormatOptions(fmtArgs))
Warn(h, i, args) == print(h, i, LevelWarn, Evaluate(args))
Warnf(h, i, fmtArgs) == print(h, i, LevelWarn, NewFormatOptions(fmtArgs))
Info(h, i, args) == print(h, i, LevelInfo, Evaluate(args))
Infof(h, i, fmtArgs) == print(h, i, LevelInfo, NewFormatOptions(fmtArgs))
Debug(h, i, args) == print(h, i, LevelDebug, Evaluate(args))
Debugf(h, i, fmtArgs) == print(h, i, LevelDebug, NewFormatOptions(fmtArgs))
Trace(h, i, args) == print(h, i, LevelTrace, Evaluate(args))
Tracef(h, i, fmtArgs) == print(h, i, LevelTrace, NewFormatOptions(fmtArgs))

\* the plain method of level lv
Plain(lv, h, i, args) ==
    CASE lv = LevelFatal -> Fatal(h, i, args)
      [] lv = LevelError -> Error(h, i, args)
      [] lv = LevelWarn  -> Warn(h, i, args)
      [] lv = LevelInfo  -> Info(h, i, args)
      [] lv = LevelDebug -> Debug(h, i, args)
      [] lv = LevelTrace -> Trace(h, i, args)

\* the formatted method of level lv
Formatted(lv, h, i, fmtArgs) ==
    CASE lv = LevelFatal -> Fatalf(h, i, fmtArgs)
      [] lv = LevelError -> Errorf(h, i, fmtArgs)
      [] lv = LevelWarn  -> Warnf(h, i, fmtArgs)
      [] lv = LevelInfo  -> Infof(h, i, fmtArgs)
      [] lv = LevelDebug -> Debugf(h, i, fmtArgs)
      [] lv = LevelTrace -> Tracef(h, i, fmtArgs)

\* NewChild putting the parent's level before the caller's setters
NewChild_levelFirst(h, i, args) ==
    LET l == h[i]
        options == Evaluate(args)
        namespace == GetString(options, NamespaceKey)[1]
        args1 == IF namespace = "" /\ l.namespace # ""
                 THEN Append(args, WithNamespace(l.namespace))
                 ELSE args
        args2 == <<Level(l.level)>> \o args1
        cl == NewStdLogger(l.printer, args2)
        cl2 == IF options.Context # NoCtx
               THEN [cl EXCEPT !.ctx = options.Context]
               ELSE cl
    IN  Append(h, cl2)

\* NewChild without the re-injection of the parent's namespace
NewChild_noInherit(h, i, args) ==
    LET l == h[i]
        options == Evaluate(args)
        args2 == Append(args, Level(l.level))
        cl == NewStdLogger(l.printer, args2)
        cl2 == IF options.Context # NoCtx
               THEN [cl EXCEPT !.ctx = options.Context]
               ELSE cl
    IN  Append(h, cl2)

\* NewChild setting the context on its receiver instead of on the child
NewChild_ctxOnReceiver(h, i, args) ==
    LET l == h[i]
        options == Evaluate(args)
        namespace == GetString(options, NamespaceKey)[1]
        args1 == IF namespace = "" /\ l.namespace # ""
                 THEN Append(args, WithNamespace(l.namespace))
                 ELSE args
        args2 == Append(args1, Level(l.level))
        cl == NewStdLogger(l.printer, args2)
        h2 == IF options.Context # NoCtx
              THEN [h EXCEPT ![i].ctx = options.Context]
              ELSE h
    IN  Append(h2, cl)

\* StdLogger.NewChild on the logger at address i of heap h: the heap after the
\* call, the child being the last element
NewChild(h, i, args) ==
    LET l == h[i]
        options == Evaluate(args)
        namespace == GetString(options, NamespaceKey)[1]
        args1 == IF namespace = "" /\ l.namespace # ""
                 THEN Append(args, WithNamespace(l.namespace))
                 ELSE args
        args2 == Append(args1, Level(l.level))
        cl == NewStdLogger(l.printer, args2)
        cl2 == IF options.Context # NoCtx
               THEN [cl EXCEPT !.ctx = options.Context]
               ELSE cl
    IN  Append(h, cl2)

\* ------------------------------------------------------------------------
\* level.Parse and the environment
\* ------------------------------------------------------------------------
\* upper-casing, on the level names the environment may hold
ToUpper(s) ==
    CASE s = "trace" -> "TRACE"
      [] s = "Debug" -> "DEBUG"
      [] OTHER -> s

\* Parse: case-insensitive match of a level name, Info for anything else
Parse(name) ==
    LET u == ToUpper(name)
    IN  CASE u = "FATAL" -> LevelFatal
          [] u = "ERROR" -> LevelError
          [] u = "WARN"  -> LevelWarn
          [] u = "INFO"  -> LevelInfo
          [] u = "DEBUG" -> LevelDebug
          [] u = "TRACE" -> LevelTrace
          [] OTHER -> LevelInfo

\* the environments the process may be started in
Envs == {[level |-> "trace", namespace |-> "app"], [level |-> "bogus", namespace |-> ""]}

\* ------------------------------------------------------------------------
\* Inputs of the application's calls
\* ------------------------------------------------------------------------
\* the setters of the first logger the application constructs
RootArgLists ==
    {<<Level(T), WithNamespace("api")>> : T \in Levels} \cup {<<Level(LevelInfo)>>}

\* the setters handed to NewChild: none, one of these, or a Level setter and
\* one of the others
LevelSetters == {Level(LevelFatal), Level(LevelTrace)}
OtherSetters == {WithNamespace(""), WithNamespace("users"), WithContext("ctx1")}
ChildArgLists ==
    {<<>>} \cup {<<a>> : a \in LevelSetters \cup OtherSetters}
           \cup {<<a, b>> : a \in LevelSetters, b \in OtherSetters}

\* the setters handed to a plain level method
LogArgLists == {<<>>, <<WithContext("ctx2")>>}

\* the printf arguments handed to a formatted level method
FmtArgLists == {<<"v">>}

\* ------------------------------------------------------------------------
\* The application's calls on loggers
\* ------------------------------------------------------------------------
NoCall ==
    [op |-> "none", lg |-> 0, lv |-> LevelFatal, f |-> FALSE, opts |-> ZeroOptions,
     out |-> <<>>, child |-> 0, prevFatal |-> FALSE]

\* the call just before this one was Fatal or Fatalf
WasFatal == call.op = "log" /\ call.lv = LevelFatal

RegistryVars ==
    <<env, log, logMutex, pc, op, arg, res, outcome, vis, synth, bootTraces,
      userOps, committed, clearMark, expect, ncalls>>

\* a plain level method (Fatal .. Trace) on the logger at address i; prev tells
\* whether the caller's previous call was Fatal or Fatalf
PlainCall(i, lv, args, prev) ==
    /\ ~aborted
    /\ i \in DOMAIN heap
    /\ LET r == Plain(lv, heap, i, args)
       IN  /\ heap' = r.heap
           /\ aborted' = r.exit
           /\ call' = [op |-> "log", lg |-> i, lv |-> lv, f |-> FALSE,
                       opts |-> Evaluate(args), out |-> r.out, child |-> 0,
                       prevFatal |-> prev]
    /\ UNCHANGED <<parent, nprinters, RegistryVars>>

\* a formatted level method (Fatalf .. Tracef) on the logger at address i
FormattedCall(i, lv, fmtArgs, prev) ==
    /\ ~aborted
    /\ i \in DOMAIN heap
    /\ LET r == Formatted(lv, heap, i, fmtArgs)
       IN  /\ heap' = r.heap
           /\ aborted' = r.exit
           /\ call' = [op |-> "log", lg |-> i, lv |-> lv, f |-> TRUE,
                       opts |-> NewFormatOptions(fmtArgs), out |-> r.out,
                       child |-> 0, prevFatal |-> prev]
    /\ UNCHANGED <<parent, nprinters, RegistryVars>>

\* NewChild on the logger at address i
CallNewChild(i, args) ==
    /\ ~aborted
    /\ i \in DOMAIN heap
    /\ Len(heap) < MaxLoggers
    /\ LET h == NewChild(heap, i, args)
       IN  /\ heap' = h
           /\ parent' = Append(parent, i)
           /\ nprinters' = PrintersAfter(h[Len(h)])
           /\ call' = [op |-> "NewChild", lg |-> i, lv |-> LevelFatal, f |-> FALSE,
                       opts |-> Evaluate(args), out |-> <<>>, child |-> Len(h),
                       prevFatal |-> FALSE]
    /\ UNCHANGED <<aborted, RegistryVars>>

\* ------------------------------------------------------------------------
\* The global registry: var log Logger, var logMutex sync.RWMutex
\* ------------------------------------------------------------------------
NumThreads == 2
Threads == 1..NumThreads

\* the nil Logger
Nil == 0
\* a Logger read half-way through a write of the two-word interface value:
\* non-nil as an interface, with a nil *StdLogger inside
TornPtr == -1

\* bookkeeping of the last completed Register / Clear of a caller
Unknown == [kind |-> "unknown", l |-> Nil]
Cleared == [kind |-> "cleared", l |-> Nil]
Registered(l) == [kind |-> "registered", l |-> l]

\* The values a read of log by thread t, made without holding logMutex, may
\* yield: a write t is not synchronized with may or may not be seen, and the
\* two words of the interface value may come from two different writes.
ReadOutcomes(t) ==
    vis[t] \cup (IF Nil \in vis[t] /\ vis[t] # {Nil} THEN {TornPtr} ELSE {})

\* A read of log by a thread holding logMutex yields the value of log.
\* The visible values after thread t has written v under the lock
VisAfterWrite(t, v) == [u \in Threads |-> IF u = t THEN {v} ELSE vis[u] \cup {v}]

\* loggers the running calls may still allocate
Reserved ==
    Cardinality({u \in Threads : pc[u] = "G_check"})
    + Cardinality({u \in Threads : op[u] = "NewChild" /\ pc[u] # "idle"})

\* a caller's Register or Clear other than t's is in progress
OtherCallerOp(t) ==
    \E u \in Threads \ {t} : op[u] \in {"Register", "Clear"} /\ pc[u] # "idle"

\* the loggers the application constructed itself
AppLoggers == {i \in DOMAIN heap : i \notin synth /\ parent[i] = 0}

LoggerVars == <<heap, parent, nprinters, call, aborted>>

\* Get(): entry
CallGet(t) ==
    /\ ~aborted
    /\ pc[t] = "idle"
    /\ ncalls < MaxCalls
    /\ ncalls' = ncalls + 1
    /\ Len(heap) + Reserved + 1 <= MaxLoggers
    /\ pc' = [pc EXCEPT ![t] = "G_check"]
    /\ op' = [op EXCEPT ![t] = "Get"]
    /\ outcome' = [outcome EXCEPT ![t] = "ok"]
    /\ expect' = [expect EXCEPT ![t] = committed]
    /\ UNCHANGED <<LoggerVars, env, log, logMutex, arg, res, vis, synth, bootTraces,
                   userOps, committed, clearMark>>

\* Get(): if log == nil { ... l := NewStdLogger(p, ...); Register(l) up to the
\* call of Register; the nil check of Register passes, l being non-nil
GetCheck(t) ==
    /\ ~aborted
    /\ UNCHANGED ncalls
    /\ pc[t] = "G_check"
    /\ \E v \in ReadOutcomes(t) :
          IF v = Nil
          THEN LET logLevel == Parse(env.level)
                   p == NewStdLogPrinter
                   l == NewStdLogger(p, <<Level(logLevel), WithNamespace(env.namespace)>>)
               IN  /\ heap' = Append(heap, l)
                   /\ parent' = Append(parent, 0)
                   /\ nprinters' = PrintersAfter(l)
                   /\ synth' = synth \cup {Len(heap) + 1}
                   /\ arg' = [arg EXCEPT ![t] = Len(heap) + 1]
                   /\ pc' = [pc EXCEPT ![t] = "R_lock"]
          ELSE /\ pc' = [pc EXCEPT ![t] = "G_ret"]
               /\ UNCHANGED <<heap, parent, nprinters, synth, arg>>
    /\ UNCHANGED <<call, aborted, env, log, logMutex, op, res, outcome, vis,
                   bootTraces, userOps, committed, clearMark, expect>>

\* Register taking the lock before the nil check: the panic leaves it held
CallRegister_lockFirst(t, l) ==
    /\ ~aborted
    /\ pc[t] = "idle"
    /\ ncalls < MaxCalls
    /\ ncalls' = ncalls + 1
    /\ l \in AppLoggers \cup {Nil}
    /\ op' = [op EXCEPT ![t] = "Register"]
    /\ userOps' = TRUE
    /\ committed' = Unknown
    /\ clearMark' = 0
    /\ expect' = [u \in Threads |-> Unknown]
    /\ IF l = Nil
       THEN \* panic(...), with the lock taken and no deferred Unlock yet
            /\ logMutex = 0
            /\ logMutex' = t
            /\ outcome' = [outcome EXCEPT ![t] = "panic"]
            /\ UNCHANGED <<pc, arg>>
       ELSE /\ outcome' = [outcome EXCEPT ![t] = "ok"]
            /\ pc' = [pc EXCEPT ![t] = "R_lock"]
            /\ arg' = [arg EXCEPT ![t] = l]
            /\ UNCHANGED logMutex
    /\ UNCHANGED <<LoggerVars, env, log, res, vis, synth, bootTraces>>

\* Register(l): entry and the nil check
CallRegister(t, l) ==
    /\ ~aborted
    /\ pc[t] = "idle"
    /\ ncalls < MaxCalls
    /\ ncalls' = ncalls + 1
    /\ l \in AppLoggers \cup {Nil}
    /\ op' = [op EXCEPT ![t] = "Register"]
    /\ userOps' = TRUE
    /\ committed' = Unknown
    /\ clearMark' = 0
    /\ expect' = [u \in Threads |-> Unknown]
    /\ IF l = Nil
       THEN \* panic(...), before the lock is taken
            /\ outcome' = [outcome EXCEPT ![t] = "panic"]
            /\ UNCHANGED <<pc, arg>>
       ELSE /\ outcome' = [outcome EXCEPT ![t] = "ok"]
            /\ pc' = [pc EXCEPT ![t] = "R_lock"]
            /\ arg' = [arg EXCEPT ![t] = l]
    /\ UNCHANGED <<LoggerVars, env, log, logMutex, res, vis, synth, bootTraces>>

\* Register(l): logMutex.Lock()
RegisterLock(t) ==
    /\ ~aborted
    /\ UNCHANGED ncalls
    /\ pc[t] = "R_lock"
    /\ logMutex = 0
    /\ logMutex' = t
    /\ vis' = [vis EXCEPT ![t] = {log}]
    /\ pc' = [pc EXCEPT ![t] = "R_write"]
    /\ UNCHANGED <<LoggerVars, env, log, op, arg, res, outcome, synth, bootTraces,
                   userOps, committed, clearMark, expect>>

\* Register(l): log = l, then the deferred logMutex.Unlock() and the return,
\* to the caller or into Get
RegisterWrite(t) ==
    /\ ~aborted
    /\ UNCHANGED ncalls
    /\ pc[t] = "R_write"
    /\ log' = arg[t]
    /\ vis' = VisAfterWrite(t, arg[t])
    /\ logMutex' = IF logMutex = t THEN 0 ELSE logMutex
    /\ arg' = [arg EXCEPT ![t] = Nil]
    /\ IF op[t] = "Register"
       THEN /\ pc' = [pc EXCEPT ![t] = "idle"]
            /\ op' = [op EXCEPT ![t] = "none"]
            /\ committed' = IF OtherCallerOp(t) THEN Unknown ELSE Registered(arg[t])
       ELSE /\ pc' = [pc EXCEPT ![t] = "G_trace"]
            /\ UNCHANGED <<op, committed>>
    /\ UNCHANGED <<LoggerVars, env, res, outcome, synth, bootTraces, userOps,
                   clearMark, expect>>

\* Get(): log.Trace("No logger found. StdLogger initiated")
GetTrace(t) ==
    /\ ~aborted
    /\ UNCHANGED ncalls
    /\ pc[t] = "G_trace"
    /\ \E v \in ReadOutcomes(t) :
          IF v \in {Nil, TornPtr}
          THEN \* nil dereference: the call panics
               /\ pc' = [pc EXCEPT ![t] = "idle"]
               /\ op' = [op EXCEPT ![t] = "none"]
               /\ outcome' = [outcome EXCEPT ![t] = "panic"]
               /\ expect' = [expect EXCEPT ![t] = Unknown]
               /\ UNCHANGED <<heap, aborted, bootTraces>>
          ELSE LET r == Trace(heap, v, <<>>)
               IN  /\ heap' = r.heap
                   /\ aborted' = r.exit
                   /\ bootTraces' = bootTraces + Len(r.out)
                   /\ pc' = [pc EXCEPT ![t] = "G_ret"]
                   /\ UNCHANGED <<op, outcome, expect>>
    /\ UNCHANGED <<parent, nprinters, call, env, log, logMutex, arg, res, vis,
                   synth, userOps, committed, clearMark>>

\* Get(): return log
GetReturn(t) ==
    /\ ~aborted
    /\ UNCHANGED ncalls
    /\ pc[t] = "G_ret"
    /\ \E v \in ReadOutcomes(t) :
          /\ res' = [res EXCEPT ![t] = v]
          /\ IF op[t] = "Get"
             THEN /\ pc' = [pc EXCEPT ![t] = "idle"]
                  /\ op' = [op EXCEPT ![t] = "none"]
                  /\ committed' = IF expect[t] = Cleared /\ committed = Cleared /\ v > Nil
                                  THEN Registered(v)
                                  ELSE committed
             ELSE /\ pc' = [pc EXCEPT ![t] = "N_child"]
                  /\ UNCHANGED <<op, committed>>
    /\ expect' = [expect EXCEPT ![t] = Unknown]
    /\ UNCHANGED <<LoggerVars, env, log, logMutex, outcome, arg, vis, synth,
                   bootTraces, userOps, clearMark>>

\* NewChild(args...) of the package: logger := Get()
CallPkgNewChild(t) ==
    /\ ~aborted
    /\ pc[t] = "idle"
    /\ ncalls < MaxCalls
    /\ ncalls' = ncalls + 1
    /\ Len(heap) + Reserved + 2 <= MaxLoggers
    /\ pc' = [pc EXCEPT ![t] = "G_check"]
    /\ op' = [op EXCEPT ![t] = "NewChild"]
    /\ outcome' = [outcome EXCEPT ![t] = "ok"]
    /\ expect' = [expect EXCEPT ![t] = committed]
    /\ UNCHANGED <<LoggerVars, env, log, logMutex, arg, res, vis, synth, bootTraces,
                   userOps, committed, clearMark>>

\* NewChild(args...) of the package: return logger.NewChild(args...)
PkgNewChildReturn(t, args) ==
    /\ ~aborted
    /\ UNCHANGED ncalls
    /\ pc[t] = "N_child"
    /\ pc' = [pc EXCEPT ![t] = "idle"]
    /\ op' = [op EXCEPT ![t] = "none"]
    /\ IF res[t] \in {Nil, TornPtr}
       THEN \* method call on a nil Logger: the call panics
            /\ outcome' = [outcome EXCEPT ![t] = "panic"]
            /\ UNCHANGED <<heap, parent, nprinters>>
       ELSE LET h == NewChild(heap, res[t], args)
            IN  /\ heap' = h
                /\ parent' = Append(parent, res[t])
                /\ nprinters' = PrintersAfter(h[Len(h)])
                /\ UNCHANGED outcome
    /\ UNCHANGED <<call, aborted, env, log, logMutex, arg, res, vis, synth,
                   bootTraces, userOps, committed, clearMark, expect>>

\* Clear(): entry
CallClear(t) ==
    /\ ~aborted
    /\ pc[t] = "idle"
    /\ ncalls < MaxCalls
    /\ ncalls' = ncalls + 1
    /\ pc' = [pc EXCEPT ![t] = "C_lock"]
    /\ op' = [op EXCEPT ![t] = "Clear"]
    /\ outcome' = [outcome EXCEPT ![t] = "ok"]
    /\ userOps' = TRUE
    /\ committed' = Unknown
    /\ clearMark' = 0
    /\ expect' = [u \in Threads |-> Unknown]
    /\ UNCHANGED <<LoggerVars, env, log, logMutex, arg, res, vis, synth, bootTraces>>

\* Clear(): logMutex.Lock()
ClearLock(t) ==
    /\ ~aborted
    /\ UNCHANGED ncalls
    /\ pc[t] = "C_lock"
    /\ logMutex = 0
    /\ logMutex' = t
    /\ vis' = [vis EXCEPT ![t] = {log}]
    /\ pc' = [pc EXCEPT ![t] = "C_write"]
    /\ UNCHANGED <<LoggerVars, env, log, op, arg, res, outcome, synth, bootTraces,
                   userOps, committed, clearMark, expect>>

\* Clear(): log = nil, then the deferred logMutex.Unlock() and the return
ClearWrite(t) ==
    /\ ~aborted
    /\ UNCHANGED ncalls
    /\ pc[t] = "C_write"
    /\ log' = Nil
    /\ vis' = VisAfterWrite(t, Nil)
    /\ logMutex' = IF logMutex = t THEN 0 ELSE logMutex
    /\ pc' = [pc EXCEPT ![t] = "idle"]
    /\ op' = [op EXCEPT ![t] = "none"]
    /\ committed' = IF OtherCallerOp(t) THEN Unknown ELSE Cleared
    /\ clearMark' = IF OtherCallerOp(t) THEN 0 ELSE Len(heap)
    /\ UNCHANGED <<LoggerVars, env, arg, res, outcome, synth, bootTraces, userOps,
                   expect>>

\* thread t calls a plain level method on the logger its Get() returned
UsePlain(t, lv) ==
    /\ pc[t] = "idle"
    /\ res[t] > Nil
    /\ PlainCall(res[t], lv, <<>>, WasFatal)

\* thread t calls a formatted level method on the logger its Get() returned
UseFormatted(t, lv) ==
    /\ pc[t] = "idle"
    /\ res[t] > Nil
    /\ \E fa \in FmtArgLists : FormattedCall(res[t], lv, fa, WasFatal)

\* ------------------------------------------------------------------------
\* Specifications
\* ------------------------------------------------------------------------
\* the registry before any call: the slot is empty, the lock is free
InitRegistry ==
    /\ log = Nil
    /\ logMutex = 0
    /\ pc = [t \in Threads |-> "idle"]
    /\ op = [t \in Threads |-> "none"]
    /\ arg = [t \in Threads |-> Nil]
    /\ res = [t \in Threads |-> Nil]
    /\ outcome = [t \in Threads |-> "ok"]
    /\ vis = [t \in Threads |-> {Nil}]
    /\ synth = {}
    /\ bootTraces = 0
    /\ userOps = FALSE
    /\ committed = Unknown
    /\ clearMark = 0
    /\ expect = [t \in Threads |-> Unknown]
    /\ ncalls = 0
    /\ aborted = FALSE
    /\ call = NoCall

\* The registry and the threads using it.  The application has constructed one
\* logger of its own, which it may register.
Init ==
    /\ InitRegistry
    /\ env \in Envs
    /\ nprinters = 1
    /\ heap = <<[level |-> LevelDebug, printer |-> 1, namespace |-> "api", ctx |-> NoCtx]>>
    /\ parent = <<0>>

\* one step of thread t inside Get, Register, Clear or the package's NewChild
ThreadStep(t) ==
    \/ CallGet(t)
    \/ GetCheck(t)
    \/ GetTrace(t)
    \/ GetReturn(t)
    \/ CallPkgNewChild(t)
    \/ \E args \in {<<>>, <<WithNamespace("users")>>} : PkgNewChildReturn(t, args)
    \/ \E l \in DOMAIN heap \cup {Nil} : CallRegister(t, l)
    \/ RegisterLock(t)
    \/ RegisterWrite(t)
    \/ CallClear(t)
    \/ ClearLock(t)
    \/ ClearWrite(t)

Next == \E t \in Threads : ThreadStep(t)

vars == <<heap, parent, nprinters, call, aborted, env, log, logMutex, pc, op, arg,
          res, outcome, vis, synth, bootTraces, userOps, committed, clearMark,
          expect, ncalls>>
Spec == Init /\ [][Next]_vars

\* The same program run by a single thread, which also logs through the logger
\* Get() returned.
NextSeq ==
    \E t \in {1} :
        \/ ThreadStep(t)
        \/ \E lv \in Levels : UsePlain(t, lv)
        \/ \E lv \in Levels : UseFormatted(t, lv)

SpecSeq == Init /\ [][NextSeq]_vars

\* The standard logger alone: one logger constructed by the application, then
\* level methods and NewChild on every logger it holds.
InitLogger ==
    /\ InitRegistry
    /\ env = [level |-> "", namespace |-> ""]
    /\ nprinters = 0
    /\ \E args \in RootArgLists :
          /\ heap = <<NewStdLogger(NoPrinter, args)>>
    /\ parent = <<0>>

NextLogger ==
    \/ \E i \in DOMAIN heap : \E lv \in Levels : \E args \in LogArgLists :
          PlainCall(i, lv, args, FALSE)
    \/ \E i \in DOMAIN heap : \E lv \in Levels : \E fa \in FmtArgLists :
          FormattedCall(i, lv, fa, FALSE)
    \/ \E i \in DOMAIN heap : \E args \in ChildArgLists : CallNewChild(i, args)

SpecLogger == InitLogger /\ [][NextLogger]_vars

\* ------------------------------------------------------------------------
\* Claims
\* ------------------------------------------------------------------------
\* the threshold of the receiver of the last call
Threshold == heap[call.lg].level

\* C1: a level method of level L on a logger with threshold T invokes the
\* Printer exactly once if L <= T and not at all if L > T, plain or formatted.
C1_LevelGate ==
    call.op = "log" =>
        /\ Len(call.out) = (IF call.lv <= Threshold THEN 1 ELSE 0)
        /\ \A k \in DOMAIN call.out :
              /\ call.out[k].printer = heap[call.lg].printer
              /\ call.out[k].level = call.lv

\* threshold Debug: Tracef is blocked
C1_Witness ==
    /\ call.op = "log" /\ call.f
    /\ Threshold = LevelDebug /\ call.lv = LevelTrace /\ call.out = <<>>

\* C6: a child has the threshold of its parent whatever setters NewChild was
\* given, so both pass the same levels; transitively for grandchildren.
C6_ChildLevel ==
    \A i \in DOMAIN heap :
        parent[i] # 0 =>
            /\ heap[i].level = heap[parent[i]].level
            /\ \A lv \in Levels :
                  Len(print(heap, i, lv, ZeroOptions).out)
                      = Len(print(heap, parent[i], lv, ZeroOptions).out)

\* a grandchild made with a Level(Trace) setter under threshold Info
C6_Witness ==
    /\ call.op = "NewChild" /\ parent[call.lg] # 0
    /\ call.opts.Level = LevelTrace /\ Threshold = LevelInfo
    /\ heap[call.child].level = LevelInfo

\* the namespace the caller of the last NewChild asked for, "" for none
AskedNamespace == GetString(call.opts, NamespaceKey)[1]

\* C7: NewChild without a namespace setter, or with an empty one, yields the
\* parent's namespace; with a non-empty namespace N it yields N; a grandchild
\* made without an override has the namespace of its immediate parent.
C7_ChildNamespace ==
    call.op = "NewChild" =>
        /\ AskedNamespace = "" =>
              heap[call.child].namespace = heap[call.lg].namespace
        /\ AskedNamespace # "" => heap[call.child].namespace = AskedNamespace

\* parent "api" -> child "users" -> grandchild made without override: "users"
C7_Witness ==
    /\ call.op = "NewChild" /\ parent[call.lg] # 0
    /\ heap[parent[call.lg]].namespace = "api"
    /\ heap[call.lg].namespace = "users"
    /\ AskedNamespace = "" /\ ~GetString(call.opts, NamespaceKey)[2]
    /\ heap[call.child].namespace = "users"

\* C9: no level method and no NewChild changes a field of an existing logger;
\* NewChild returns a new logger that has the printer of its parent.
C9_Immutable ==
    [][/\ \A i \in DOMAIN heap : i \in DOMAIN heap' /\ heap'[i] = heap[i]
       /\ Len(heap') > Len(heap) /\ call'.op = "NewChild" =>
             /\ call'.child = Len(heap')
             /\ call'.child \notin DOMAIN heap
             /\ heap'[call'.child].printer = heap[call'.lg].printer]_vars

\* an emitted record of a child whose context differs from its parent's
C9_Witness ==
    /\ call.op = "log" /\ call.out # <<>>
    /\ parent[call.lg] # 0
    /\ heap[call.lg].ctx # heap[parent[call.lg]].ctx

\* C10: the Options handed to the Printer carry the caller's context when the
\* caller gave one, else the logger's (if any); the formatted variants never
\* carry a caller's context.
C10_ContextInjection ==
    call.op = "log" =>
        /\ call.f => call.opts.Context = NoCtx
        /\ \A k \in DOMAIN call.out :
              call.out[k].options.Context =
                  (IF call.opts.Context # NoCtx
                   THEN call.opts.Context
                   ELSE heap[call.lg].ctx)

\* the caller's context wins over the logger's
C10_Witness ==
    /\ call.op = "log" /\ call.out # <<>>
    /\ heap[call.lg].ctx = "ctx1" /\ call.opts.Context = "ctx2"
    /\ call.out[1].options.Context = "ctx2"

\* thread t makes the step that ends a call of Register(nil)
RegisterNilStep(t) ==
    /\ pc[t] = "idle" /\ pc'[t] = "idle"
    /\ op'[t] = "Register" /\ ncalls' = ncalls + 1

\* C5: Register(nil) panics, without taking logMutex and without changing log.
C5_RegisterNil ==
    [][\A t \in Threads :
          RegisterNilStep(t) =>
              /\ outcome'[t] = "panic"
              /\ log' = log
              /\ logMutex' = logMutex
              /\ logMutex' # t]_vars

\* Register(nil) has panicked while another thread holds the lock and the
\* slot holds a logger
C5_Witness ==
    \E t \in Threads :
        /\ pc[t] = "idle" /\ op[t] = "Register" /\ outcome[t] = "panic"
        /\ logMutex \in Threads \ {t}
        /\ log # Nil

C2_SingleInit ==
    ~userOps =>
        /\ Cardinality(synth) <= 1
        /\ nprinters <= 2
        /\ bootTraces <= 1
        /\ \A t \in Threads : res[t] # Nil => res[t] \in synth

\* C3: every read and every write of log by Get, Register and Clear is made by
\* a thread holding logMutex.
C3_LockDiscipline ==
    [][\A t \in Threads :
          pc[t] \in {"G_check", "G_trace", "G_ret", "R_write", "C_write"}
          /\ pc'[t] # pc[t] => logMutex = t]_vars

\* C4: a Get() started after Register(l) returned, with no Register or Clear
\* called since, synthesizes nothing and returns l; a Get() started after
\* Clear() returned synthesizes a default logger, returns a logger synthesized
\* after the Clear and leaves it in the slot, and later Get() calls return it.
C4_GetReflects ==
    [][\A t \in Threads :
          /\ pc[t] = "G_check" /\ pc'[t] # "G_check" =>
                /\ expect[t].kind = "registered" => pc'[t] = "G_ret"
                /\ expect[t] = Cleared /\ committed = Cleared => pc'[t] = "R_lock"
          /\ pc[t] = "G_ret" /\ pc'[t] # "G_ret" =>
                /\ expect[t].kind = "registered" => res'[t] = expect[t].l
                /\ expect[t] = Cleared =>
                      /\ res'[t] \in synth
                      /\ res'[t] > clearMark
                      /\ log = res'[t]]_vars

\* C11: under every interleaving of Get, Register (non-nil) and Clear, the
\* bootstrap Trace inside Get is made on a logger, never on an empty slot, and
\* every Get() returns a logger, never nil.
C11_GetNeverEmpty ==
    [][\A t \in Threads :
          /\ pc[t] = "G_trace" /\ pc'[t] # "G_trace" =>
                pc'[t] = "G_ret" /\ outcome'[t] = "ok"
          /\ pc[t] = "G_ret" /\ pc'[t] # "G_ret" =>
                res'[t] \in DOMAIN heap]_vars
====
